---------------------------- MODULE Spec2Model ----------------------------
(***************************************************************************)
(* Inventory reconciliation and order lifecycle of the ecommerce backend   *)
(* (api/serializers.py, api/views.py, api/validators.py, api/models.py).   *)
(*                                                                         *)
(* The database is the triple (stock, orders, carts).  A serializer works  *)
(* on in-memory Product objects: BulkProductPrimaryKeyRelatedField loads   *)
(* them once, during is_valid(), and every item of the submitted list that *)
(* names the same product shares one object.  Those objects are the        *)
(* function `mem` below; the database only changes when a bulk_update,     *)
(* bulk_create, save or delete is issued.                                  *)
(*                                                                         *)
(* Spec      : orders created and updated (status and items), every        *)
(*             request handler running to completion before the next.      *)
(* SpecCart  : carts created, updated, deleted and checked out.            *)
(* SpecAll   : every stock-changing request, on one product.               *)
(* SpecLines : every request that carries an item list.                    *)
(* SpecRecon : item-list updates of an order in a row, recorded in hist.   *)
(* SpecPay   : the payment views and the gateway's answers.                *)
(* SpecConc  : two workers; a request is validated (products loaded) in    *)
(*             one step and saved in a later one, other requests between.  *)
(* SpecOrders: orders created, updated and deleted, by any actor.          *)
(* SpecPayLines : the payment views with item-list updates in between.     *)
(* SpecRows  : two workers; an item-list update reads the order's rows in  *)
(*             one step and writes in a later one.                         *)
(* SpecPayConc : two workers; a payment view loads the order in one step   *)
(*             and writes in a later one.                                  *)
(* SpecCheckout : two workers; a checkout reads the cart in one step and   *)
(*             commits in a later one.                                     *)
(***************************************************************************)
EXTENDS Integers, Sequences, FiniteSets, TLC

VARIABLES stock, orders, carts, resp, reqs, hist

vars == <<stock, orders, carts, resp, reqs, hist>>

-----------------------------------------------------------------------------
(* Bounds of the model *)

InitStock == 3
MaxQty == 2
MaxItems == 2
MaxLines == 2
MaxOrders == 1
MaxCarts == 1
StockCap == 5
MaxHist == 2

Products == {"P1", "P2"}
Customers == {"u1", "u2"}
Staff == {"admin"}
Actors == Customers \cup Staff
Workers == {"w1", "w2"}

Absent == "absent"
None == "None"

\* The payment ids the gateway hands out.
PaymentIds == {"PAY-1", "PAY-2"}

-----------------------------------------------------------------------------
(* api/models.py *)

StatusChoice == {"Pending", "Confirmed", "Cancelled"}
PaymentStatusChoice == {"Paid", "Unpaid", "Payment Pending"}

\* Product.stock is a PositiveIntegerField: the column carries the check
\* constraint stock >= 0, so a statement that would store v < 0 fails.
PositiveIntegerFieldNoCheck(v) == v \in Int
PositiveIntegerField(v) == v \in Nat

\* Order.objects.create(user=..., [status=...]): "status" is a writable field
\* of OrderSerializer, so a request may set it; otherwise it defaults to
\* Pending.  payment_status and payment_id take their defaults, and the
\* order has no OrderItem yet.  "exists" turns FALSE when the row is deleted
\* (order ids are never reused).
Order(user, status) ==
    [user |-> user, status |-> IF status = Absent THEN "Pending" ELSE status,
     payment_status |-> "Unpaid", payment_id |-> None, items |-> <<>>,
     exists |-> TRUE]

\* Cart.objects.create(user=...); "exists" turns FALSE when the row is
\* deleted (cart ids are never reused).
Cart(user) == [user |-> user, items |-> <<>>, exists |-> TRUE]

Item(p, q) == [product |-> p, quantity |-> q]

-----------------------------------------------------------------------------
(* Request payloads *)

ItemValues == [product : Products, quantity : 0..MaxQty]
ItemLists == UNION {[1..k -> ItemValues] : k \in 0..MaxItems}

Min(S) == CHOOSE x \in S : \A y \in S : x <= y

\* Sum of the quantities of the line items of `items` on product p.
RECURSIVE QtyOn(_, _)
QtyOn(items, p) ==
    IF items = <<>> THEN 0
    ELSE (IF Head(items).product = p THEN Head(items).quantity ELSE 0)
         + QtyOn(Tail(items), p)

ProductsOf(items) == {items[i].product : i \in DOMAIN items}

-----------------------------------------------------------------------------
(* api/serializers.py, api/validators.py *)

\* BulkProductPrimaryKeyRelatedField.to_internal_value: one query loads the
\* products named by the submitted list; each id maps to ONE object, shared
\* by every item naming it.  The result is the stock those objects hold.
to_internal_value(dbstock, items) ==
    [p \in ProductsOf(items) |-> dbstock[p]]

\* quantity_validation(items): the first offending item raises.
quantity_validationStockOnly(items, mem) ==
    IF \E i \in DOMAIN items : mem[items[i].product] < items[i].quantity
    THEN "InsufficientStock" ELSE "ok"
quantity_validation(items, mem) ==
    LET bad == {i \in DOMAIN items :
                   \/ items[i].quantity = 0
                   \/ mem[items[i].product] < items[i].quantity}
    IN  IF bad = {} THEN "ok"
        ELSE IF items[Min(bad)].quantity = 0 THEN "InvalidQuantity"
        ELSE "InsufficientStock"

\* Product.objects.bulk_update(objs, ["stock"]): one UPDATE ... CASE WHEN
\* statement; when objs holds a product twice, the first one is written.
\* objs is a sequence of [id, stock].  The statement fails as a whole when a
\* written value breaks the column's check constraint.
Product_bulk_update(dbstock, objs) ==
    LET ids == {objs[i].id : i \in DOMAIN objs}
        first(p) == objs[Min({i \in DOMAIN objs : objs[i].id = p})].stock
        new == [p \in Products |-> IF p \in ids THEN first(p) ELSE dbstock[p]]
    IN  IF \A p \in Products : PositiveIntegerField(new[p])
        THEN [ok |-> TRUE, stock |-> new]
        ELSE [ok |-> FALSE, stock |-> dbstock]

\* OrderSerializer.update_stock_for_create
update_stock_for_create(mem, product, quantity) ==
    [mem EXCEPT ![product] = @ - quantity]

\* The loop of OrderSerializer.create over the items, from item i on.
RECURSIVE create_loop(_, _, _)
create_loop(items, i, mem) ==
    IF i > Len(items) THEN mem
    ELSE create_loop(items, i + 1,
             update_stock_for_create(mem, items[i].product, items[i].quantity))

\* update_products_stock as handed to bulk_update: references to the shared
\* objects, so every entry shows the object's final stock.
SharedObjs(touched, mem) ==
    [i \in DOMAIN touched |-> [id |-> touched[i], stock |-> mem[touched[i]]]]

\* OrderSerializer.create(validated_data), validated_data = {user, items}
\* and "status" when the request carries it; mem are the products loaded by
\* is_valid().  No transaction is opened: each statement commits on its own,
\* so the Order row stays when the stock write fails.
OrderSerializer_create(dbstock, dborders, user, status, items, mem) ==
    LET v == quantity_validation(items, mem)
        mem2 == create_loop(items, 1, mem)
        touched == [i \in DOMAIN items |-> items[i].product]
        bu == Product_bulk_update(dbstock, SharedObjs(touched, mem2))
    IN  IF v # "ok"
        THEN [err |-> v, stock |-> dbstock, orders |-> dborders]
        ELSE IF ~bu.ok
        THEN [err |-> "IntegrityError", stock |-> dbstock,
              orders |-> Append(dborders, Order(user, status))]
        ELSE [err |-> "ok", stock |-> bu.stock,
              orders |-> Append(dborders,
                                [Order(user, status) EXCEPT !.items = items])]


\* OrderSerializer.restore_product_stock(instance): select_related gives
\* every OrderItem row its own Product object, read from the database now.
restore_product_stock(dbstock, instance) ==
    Product_bulk_update(dbstock,
        [i \in DOMAIN instance.items |->
            [id |-> instance.items[i].product,
             stock |-> dbstock[instance.items[i].product]
                       + instance.items[i].quantity]])

\* OrderSerializer.update_stock_for_update on the shared object of product.
update_stock_for_updateNoRelease(previous_quantity, new_quantity, product, mem) ==
    IF new_quantity = 0
    THEN [err |-> "InvalidQuantity", mem |-> mem]
    ELSE IF previous_quantity > new_quantity
    THEN [err |-> "ok", mem |-> mem]
    ELSE IF (new_quantity - previous_quantity) > mem[product]
    THEN [err |-> "InsufficientStock", mem |-> mem]
    ELSE [err |-> "ok",
          mem |-> [mem EXCEPT ![product] = @ - (new_quantity - previous_quantity)]]
update_stock_for_updateAbsolute(previous_quantity, new_quantity, product, mem) ==
    IF new_quantity = 0
    THEN [err |-> "InvalidQuantity", mem |-> mem]
    ELSE IF previous_quantity > new_quantity
    THEN [err |-> "ok",
          mem |-> [mem EXCEPT ![product] = @ + (previous_quantity - new_quantity)]]
    ELSE IF previous_quantity < new_quantity /\ new_quantity > mem[product]
    THEN [err |-> "InsufficientStock", mem |-> mem]
    ELSE [err |-> "ok",
          mem |-> [mem EXCEPT ![product] = @ - (new_quantity - previous_quantity)]]
update_stock_for_update(previous_quantity, new_quantity, product, mem) ==
    IF new_quantity = 0
    THEN [err |-> "InvalidQuantity", mem |-> mem]
    ELSE IF previous_quantity > new_quantity
    THEN [err |-> "ok",
          mem |-> [mem EXCEPT ![product] = @ + (previous_quantity - new_quantity)]]
    ELSE IF (new_quantity - previous_quantity) > mem[product]
    THEN [err |-> "InsufficientStock", mem |-> mem]
    ELSE [err |-> "ok",
          mem |-> [mem EXCEPT ![product] = @ - (new_quantity - previous_quantity)]]

\* dict_order_item: product id -> index of the OrderItem row; when two rows
\* name one product the later row replaces the earlier one in the dict.
dict_order_item(existing) ==
    [p \in ProductsOf(existing) |->
        CHOOSE k \in DOMAIN existing :
            /\ existing[k].product = p
            /\ \A j \in DOMAIN existing : existing[j].product = p => j <= k]

DictDel(d, key) == [x \in (DOMAIN d) \ {key} |-> d[x]]

\* The rows of seq whose index is in S, in row order.
RECURSIVE RowsAt(_, _, _)
RowsAt(seq, S, i) ==
    IF i > Len(seq) THEN <<>>
    ELSE (IF i \in S THEN <<seq[i]>> ELSE <<>>) \o RowsAt(seq, S, i + 1)

\* The loop of OrderSerializer.update over the submitted items, from item i
\* on.  st.quant are the quantities held by the loaded OrderItem objects,
\* st.to_update the rows put in item_to_update, st.created item_to_create,
\* st.touched the products appended to update_products_stock.
RECURSIVE update_loop(_, _, _)
update_loop(items, i, st) ==
    IF i > Len(items) \/ st.err # "ok" THEN st
    ELSE
      LET p == items[i].product
          q == items[i].quantity
      IN  IF p \in DOMAIN st.dict
          THEN LET k == st.dict[p]
                   u == update_stock_for_update(st.quant[k], q, p, st.mem)
               IN  IF u.err # "ok" THEN [st EXCEPT !.err = u.err]
                   ELSE update_loop(items, i + 1,
                          [st EXCEPT !.mem = u.mem,
                                     !.quant[k] = q,
                                     !.to_update = @ \cup {k},
                                     !.dict = DictDel(st.dict, p),
                                     !.touched = Append(@, p)])
          ELSE LET v == quantity_validation(<<items[i]>>, st.mem)
               IN  IF v # "ok" THEN [st EXCEPT !.err = v]
                   ELSE update_loop(items, i + 1,
                          [st EXCEPT !.mem = update_stock_for_create(st.mem, p, q),
                                     !.created = Append(@, items[i]),
                                     !.touched = Append(@, p)])

\* The lists OrderSerializer.update holds when its loop over the submitted
\* items ends (or raises): item_to_update, item_to_create,
\* update_products_stock and what is left of dict_order_item.
update_state(instance, items, mem) ==
    update_loop(items, 1,
       [mem |-> mem, dict |-> dict_order_item(instance.items),
        quant |-> [k \in DOMAIN instance.items |-> instance.items[k].quantity],
        to_update |-> {}, created |-> <<>>, touched |-> <<>>,
        err |-> "ok"])

\* The writes OrderSerializer.update then issues: rows handed to
\* OrderItem bulk_update and bulk_create, rows deleted, and Product objects
\* handed to Product bulk_update.
ScheduledWrites(instance, items, mem) ==
    LET st == update_state(instance, items, mem)
    IN  [updates |-> Cardinality(st.to_update),
         creates |-> Len(st.created),
         deletes |-> Cardinality(DOMAIN st.dict),
         stock_writes |-> Len(st.touched) + Cardinality(DOMAIN st.dict)]

\* The "items" branch of OrderSerializer.update.  The OrderItem rows and the
\* products of the rows that get removed are read from the database here
\* (dbstock); the products of the submitted items are the objects of mem.
update_items(dbstock, instance, items, mem) ==
    LET existing == instance.items
        st == update_state(instance, items, mem)
        removed == {st.dict[p] : p \in DOMAIN st.dict}
        updated == [k \in DOMAIN existing |->
                       [existing[k] EXCEPT !.quantity = st.quant[k]]]
        rows == RowsAt(updated, (DOMAIN existing) \ removed, 1) \o st.created
        removedRows == RowsAt(existing, removed, 1)
        objs == SharedObjs(st.touched, st.mem)
                \o [j \in DOMAIN removedRows |->
                       [id |-> removedRows[j].product,
                        stock |-> dbstock[removedRows[j].product]
                                  + removedRows[j].quantity]]
        bu == Product_bulk_update(dbstock, objs)
    IN  IF st.err # "ok"
        THEN [err |-> st.err, stock |-> dbstock, order |-> instance]
        ELSE IF ~bu.ok
        THEN [err |-> "IntegrityError", stock |-> dbstock,
              order |-> [instance EXCEPT !.items = rows]]
        ELSE [err |-> "ok", stock |-> bu.stock,
              order |-> [instance EXCEPT !.items = rows]]

\* The "items" branch of OrderSerializer.update when other requests commit
\* while it runs: `rows` are the OrderItem rows, and rowstock the stock of
\* their products (select_related), as read when dict_order_item was built;
\* instance.items and dbstock are what the database holds when the bulk
\* statements are issued.  The statements address rows by id: with no row
\* read, the rows the order holds by then are all left alone.
write_items(dbstock, instance, rows, rowstock, items, mem) ==
    LET st == update_state([instance EXCEPT !.items = rows], items, mem)
        removed == {st.dict[p] : p \in DOMAIN st.dict}
        updated == [k \in DOMAIN rows |->
                       [rows[k] EXCEPT !.quantity = st.quant[k]]]
        kept == IF rows = <<>> THEN instance.items
                ELSE RowsAt(updated, (DOMAIN rows) \ removed, 1)
        removedRows == RowsAt(rows, removed, 1)
        objs == SharedObjs(st.touched, st.mem)
                \o [j \in DOMAIN removedRows |->
                       [id |-> removedRows[j].product,
                        stock |-> rowstock[removedRows[j].product]
                                  + removedRows[j].quantity]]
        bu == Product_bulk_update(dbstock, objs)
    IN  IF st.err # "ok"
        THEN [err |-> st.err, stock |-> dbstock, order |-> instance]
        ELSE IF ~bu.ok
        THEN [err |-> "IntegrityError", stock |-> dbstock,
              order |-> [instance EXCEPT !.items = kept \o st.created]]
        ELSE [err |-> "ok", stock |-> bu.stock,
              order |-> [instance EXCEPT !.items = kept \o st.created]]

\* OrderSerializer.update(instance, validated_data), were it to write the
\* status default when the request names no status.
OrderSerializer_updateDefaulting(dbstock, instance, data, mem) ==
    LET rs == IF data.status = "Cancelled"
              THEN restore_product_stock(dbstock, instance)
              ELSE [ok |-> TRUE, stock |-> dbstock]
        saved == IF data.status = Absent
                 THEN [instance EXCEPT !.status = "Pending"]
                 ELSE [instance EXCEPT !.status = data.status]
    IN  IF ~rs.ok
        THEN [err |-> "IntegrityError", stock |-> dbstock, order |-> instance]
        ELSE IF ~data.has_items
        THEN [err |-> "ok", stock |-> rs.stock, order |-> saved]
        ELSE update_items(rs.stock, saved, data.items, mem)

\* OrderSerializer.update(instance, validated_data); data.status is Absent
\* and data.has_items is FALSE when the request does not carry them.  The status
\* is saved (and the stock restored) before the items are looked at, and
\* nothing is rolled back when the items then raise.
OrderSerializer_update(dbstock, instance, data, mem) ==
    LET rs == IF data.status = "Cancelled"
              THEN restore_product_stock(dbstock, instance)
              ELSE [ok |-> TRUE, stock |-> dbstock]
        saved == IF data.status = Absent THEN instance
                 ELSE [instance EXCEPT !.status = data.status]
    IN  IF ~rs.ok
        THEN [err |-> "IntegrityError", stock |-> dbstock, order |-> instance]
        ELSE IF ~data.has_items
        THEN [err |-> "ok", stock |-> rs.stock, order |-> saved]
        ELSE update_items(rs.stock, saved, data.items, mem)

-----------------------------------------------------------------------------
(* api/serializers.py: carts *)

\* CartSerializer.create(validated_data): the items are validated against
\* the loaded products and stored; no stock is written.
CartSerializer_create(dbcarts, user, cartitems, mem) ==
    LET v == quantity_validation(cartitems, mem)
    IN  IF v # "ok"
        THEN [err |-> v, carts |-> dbcarts]
        ELSE [err |-> "ok",
              carts |-> Append(dbcarts, [Cart(user) EXCEPT !.items = cartitems])]

\* CartSerializer.check_stock_for_update_cartitem on the shared object of
\* product: the new quantity itself, not the increment, is held against the
\* stock.
check_stock_for_update_cartitemIncrement(previous_quantity, new_quantity, product, mem) ==
    IF new_quantity = 0 THEN "InvalidQuantity"
    ELSE IF previous_quantity < new_quantity
            /\ new_quantity - previous_quantity > mem[product]
    THEN "InsufficientStock"
    ELSE "ok"
check_stock_for_update_cartitem(previous_quantity, new_quantity, product, mem) ==
    IF new_quantity = 0 THEN "InvalidQuantity"
    ELSE IF previous_quantity < new_quantity /\ new_quantity > mem[product]
    THEN "InsufficientStock"
    ELSE "ok"

\* dict_cart_item: product id -> index of the CartItem row, the later row
\* replacing the earlier one when two rows name one product.
dict_cart_item(existing) == dict_order_item(existing)

\* The loop of CartSerializer.update over the submitted items, from item i
\* on; an existing row whose quantity equals the submitted one is skipped.
RECURSIVE cart_update_loop(_, _, _)
cart_update_loop(cartitems, i, st) ==
    IF i > Len(cartitems) \/ st.err # "ok" THEN st
    ELSE
      LET p == cartitems[i].product
          q == cartitems[i].quantity
      IN  IF p \in DOMAIN st.dict
          THEN LET k == st.dict[p]
                   c == IF st.quant[k] # q
                        THEN check_stock_for_update_cartitem(st.quant[k], q, p,
                                                             st.mem)
                        ELSE "ok"
               IN  IF c # "ok" THEN [st EXCEPT !.err = c]
                   ELSE cart_update_loop(cartitems, i + 1,
                          [st EXCEPT !.quant[k] = q,
                                     !.to_update = IF st.quant[k] # q
                                                   THEN @ \cup {k} ELSE @,
                                     !.dict = DictDel(st.dict, p)])
          ELSE LET v == quantity_validation(<<cartitems[i]>>, st.mem)
               IN  IF v # "ok" THEN [st EXCEPT !.err = v]
                   ELSE cart_update_loop(cartitems, i + 1,
                          [st EXCEPT !.created = Append(@, cartitems[i])])

\* CartSerializer.update(instance, validated_data) with "cartitems" given:
\* the rows left in the dict are deleted, the changed rows updated, the new
\* ones created; no stock is written.  (updated_at is not modelled; a request
\* without "cartitems" only refreshes it.)
CartSerializer_update(instance, cartitems, mem) ==
    LET existing == instance.items
        st == cart_update_loop(cartitems, 1,
                 [mem |-> mem, dict |-> dict_cart_item(existing),
                  quant |-> [k \in DOMAIN existing |-> existing[k].quantity],
                  to_update |-> {}, created |-> <<>>, err |-> "ok"])
        removed == {st.dict[p] : p \in DOMAIN st.dict}
        updated == [k \in DOMAIN existing |->
                       [existing[k] EXCEPT !.quantity = st.quant[k]]]
        rows == RowsAt(updated, (DOMAIN existing) \ removed, 1) \o st.created
    IN  IF st.err # "ok"
        THEN [err |-> st.err, cart |-> instance]
        ELSE [err |-> "ok", cart |-> [instance EXCEPT !.items = rows]]

-----------------------------------------------------------------------------
(* api/views.py *)

\* What a request produced: the response (code, err) and the call the view
\* made to the payment gateway while serving it ("none" unless a payment view
\* says otherwise).
Resp(op, code, err, id) ==
    [op |-> op, code |-> code, err |-> err, id |-> id, gateway |-> "none"]

\* How the framework answers an exception that leaves a view: a
\* serializers.ValidationError is a 400 carrying its message, anything else
\* a 500.
StatusOf(err, okcode) ==
    IF err = "ok" THEN okcode
    ELSE IF err \in {"InvalidQuantity", "InsufficientStock"} THEN 400
    ELSE 500

UpdateData ==
    {d \in [status : StatusChoice \cup {Absent}, has_items : BOOLEAN,
            items : ItemLists] : ~d.has_items => d.items = <<>>}

EmptyPatch == [status |-> Absent, has_items |-> FALSE, items |-> <<>>]

\* OrderViewSet.create -> perform_create -> OrderSerializer.create.
\* is_valid() loads the products, save() runs create() right after.
\* (hist is left to the specification, as for UpdateOrder.)
CreateOrder(actor, status, items) ==
    /\ \E r \in {OrderSerializer_create(stock, orders, actor, status, items,
                                        to_internal_value(stock, items))} :
          /\ Len(r.orders) <= MaxOrders
          /\ stock' = r.stock
          /\ orders' = r.orders
          /\ resp' = Resp("create_order", StatusOf(r.err, 201), r.err,
                          Len(r.orders))
    /\ UNCHANGED <<carts, reqs>>

\* OrderViewSet.get_permissions for update, partial_update and destroy:
\* IsAdminUser.
IsAdminUserOrAuthenticated(actor) == actor \in Actors
IsAdminUser(actor) == actor \in Staff

\* get_object of OrderViewSet (staff see every order) and get_object_or_404
\* of the payment views.
OrderFound(oid) == oid \in DOMAIN orders /\ orders[oid].exists

\* order.delete(): the OrderItem rows go with the order (on_delete CASCADE);
\* no product is written.
DeletedOrder(order) == [order EXCEPT !.items = <<>>, !.exists = FALSE]

\* OrderViewSet.update / partial_update -> OrderSerializer.update.
\* get_permissions admits staff only; get_object answers 404 for an unknown
\* id; is_valid() loads the products of the submitted items before update().
\* (hist, the record of the item-list updates served, is left to the
\* specification: see Reconcile.)
UpdateOrder(actor, oid, data) ==
    /\ IF ~IsAdminUser(actor)
       THEN /\ resp' = Resp("update_order", 403, "Forbidden", oid)
            /\ UNCHANGED <<stock, orders>>
       ELSE IF ~OrderFound(oid)
       THEN /\ resp' = Resp("update_order", 404, "NotFound", oid)
            /\ UNCHANGED <<stock, orders>>
       ELSE \E r \in {OrderSerializer_update(stock, orders[oid], data,
                          to_internal_value(stock, data.items))} :
                /\ \A p \in Products : r.stock[p] <= StockCap
                /\ Len(r.order.items) <= MaxLines
                /\ stock' = r.stock
                /\ orders' = [orders EXCEPT ![oid] = r.order]
                /\ resp' = Resp("update_order", StatusOf(r.err, 200), r.err, oid)
    /\ UNCHANGED <<carts, reqs>>

\* A destroy that returned the stock of the deleted order's lines.
DeleteOrderRestoring(actor, oid) ==
    IF ~IsAdminUser(actor)
    THEN /\ resp' = Resp("delete_order", 403, "Forbidden", oid)
         /\ UNCHANGED <<stock, orders, carts, reqs, hist>>
    ELSE IF ~OrderFound(oid)
    THEN /\ resp' = Resp("delete_order", 404, "NotFound", oid)
         /\ UNCHANGED <<stock, orders, carts, reqs, hist>>
    ELSE /\ orders' = [orders EXCEPT ![oid] = DeletedOrder(@)]
         /\ stock' = [p \in Products |->
                        stock[p] + QtyOn(orders[oid].items, p)]
         /\ resp' = Resp("delete_order", 204, "ok", oid)
         /\ UNCHANGED <<carts, reqs, hist>>

\* OrderViewSet.destroy: permissions first, then get_object, then
\* instance.delete().
DeleteOrder(actor, oid) ==
    /\ IF ~IsAdminUser(actor)
       THEN /\ resp' = Resp("delete_order", 403, "Forbidden", oid)
            /\ UNCHANGED orders
       ELSE IF ~OrderFound(oid)
       THEN /\ resp' = Resp("delete_order", 404, "NotFound", oid)
            /\ UNCHANGED orders
       ELSE /\ orders' = [orders EXCEPT ![oid] = DeletedOrder(@)]
            /\ resp' = Resp("delete_order", 204, "ok", oid)
    /\ UNCHANGED <<stock, carts, reqs, hist>>

\* CartViewSet.create -> perform_create -> CartSerializer.create
CreateCartReserving(actor, cartitems) ==
    /\ \E r \in {CartSerializer_create(carts, actor, cartitems,
                                       to_internal_value(stock, cartitems))} :
          /\ Len(r.carts) <= MaxCarts
          /\ carts' = r.carts
          /\ stock' = IF r.err = "ok"
                      THEN [p \in Products |->
                              IF stock[p] >= QtyOn(cartitems, p)
                              THEN stock[p] - QtyOn(cartitems, p) ELSE 0]
                      ELSE stock
          /\ resp' = Resp("create_cart", StatusOf(r.err, 201), r.err,
                          Len(r.carts))
    /\ UNCHANGED <<orders, reqs, hist>>
CreateCart(actor, cartitems) ==
    /\ \E r \in {CartSerializer_create(carts, actor, cartitems,
                                       to_internal_value(stock, cartitems))} :
          /\ Len(r.carts) <= MaxCarts
          /\ carts' = r.carts
          /\ resp' = Resp("create_cart", StatusOf(r.err, 201), r.err,
                          Len(r.carts))
    /\ UNCHANGED <<stock, orders, reqs, hist>>

\* CartViewSet.get_queryset / get_object: a user who is not staff sees only
\* their own carts.
CartVisibleToAll(actor, cid) ==
    /\ cid \in DOMAIN carts
    /\ carts[cid].exists
CartVisible(actor, cid) ==
    /\ cid \in DOMAIN carts
    /\ carts[cid].exists
    /\ (actor \in Staff \/ carts[cid].user = actor)

\* cart.delete(): the CartItem rows go with the cart.
DeletedCart(cart) == [cart EXCEPT !.items = <<>>, !.exists = FALSE]

\* CartViewSet.update / partial_update -> CartSerializer.update.  get_object
\* answers 404 for a cart the actor does not see; is_valid() loads the
\* products of the submitted items.
UpdateCart(actor, cid, cartitems) ==
    /\ IF ~CartVisible(actor, cid)
       THEN /\ resp' = Resp("update_cart", 404, "NotFound", cid)
            /\ UNCHANGED carts
       ELSE \E r \in {CartSerializer_update(carts[cid], cartitems,
                          to_internal_value(stock, cartitems))} :
                /\ Len(r.cart.items) <= MaxLines
                /\ carts' = [carts EXCEPT ![cid] = r.cart]
                /\ resp' = Resp("update_cart", StatusOf(r.err, 200), r.err, cid)
    /\ UNCHANGED <<stock, orders, reqs, hist>>

\* CartViewSet.destroy
DeleteCart(actor, cid) ==
    /\ IF ~CartVisible(actor, cid)
       THEN /\ resp' = Resp("delete_cart", 404, "NotFound", cid)
            /\ UNCHANGED carts
       ELSE /\ carts' = [carts EXCEPT ![cid] = DeletedCart(@)]
            /\ resp' = Resp("delete_cart", 204, "ok", cid)
    /\ UNCHANGED <<stock, orders, reqs, hist>>

\* "if not cart_items.exists()" of CartViewSet.checkout
CartIsEmptyNever(cart) == FALSE
CartIsEmpty(cart) == cart.items = <<>>

\* CartViewSet.checkout, under transaction.atomic.  The order data are the
\* cart's items alone (no status).  Whatever create() raises
\* is caught by the view's "except Exception" and answered 500 with a fixed
\* message; a failed statement marks the transaction for rollback, so
\* nothing of a failed checkout is committed.
Checkout(actor, cid) ==
    /\ IF ~CartVisible(actor, cid)
       THEN /\ resp' = Resp("checkout", 404, "NotFound", cid)
            /\ UNCHANGED <<stock, orders, carts>>
       ELSE IF carts[cid].user # actor
       THEN /\ resp' = Resp("checkout", 403, "Forbidden", cid)
            /\ UNCHANGED <<stock, orders, carts>>
       ELSE IF CartIsEmpty(carts[cid])
       THEN /\ resp' = Resp("checkout", 400, "EmptyCart", cid)
            /\ UNCHANGED <<stock, orders, carts>>
       ELSE \E r \in {OrderSerializer_create(stock, orders, actor, Absent,
                          carts[cid].items,
                          to_internal_value(stock, carts[cid].items))} :
              IF r.err = "ok"
              THEN /\ Len(r.orders) <= MaxOrders
                   /\ stock' = r.stock
                   /\ orders' = r.orders
                   /\ carts' = [carts EXCEPT ![cid] = DeletedCart(@)]
                   /\ resp' = Resp("checkout", 201, "ok", cid)
              ELSE /\ resp' = Resp("checkout", 500, "ServerError", cid)
                   /\ UNCHANGED <<stock, orders, carts>>
    /\ UNCHANGED <<reqs, hist>>

\* What the gateway may answer to create_payment: the payment was created
\* and carries an approval link, it was created without one (create_payment
\* then returns None and the view's payment_data["success"] raises), or the
\* creation failed or raised.
CreateAnswers ==
    [kind : {"created"}, payment_id : PaymentIds]
       \cup {[kind |-> "no_approval_url", payment_id |-> None],
             [kind |-> "failed", payment_id |-> None]}

\* "if order.payment_status in [PAID, PAYMENT_PENDING]" of
\* CreatePaymentAPIView.post
AlreadyPaidOnly(order) == order.payment_status = "Paid"
AlreadyPaidOrPending(order) ==
    order.payment_status \in {"Paid", "Payment Pending"}

\* What CreatePaymentAPIView.post writes when the payment was created:
\* payment_status and payment_id (save with update_fields).
PendingWithoutId(order, payment_data) ==
    [order EXCEPT !.payment_status = "Payment Pending"]
Pending(order, payment_data) ==
    [order EXCEPT !.payment_status = "Payment Pending",
                  !.payment_id = payment_data.payment_id]

\* CreatePaymentAPIView.post(order_id); gw is the gateway's answer to
\* utils.create_payment, should the view get that far.  get_object_or_404
\* raises inside the try, so an unknown order is answered by the view's
\* "except Exception" like any other error.
CreatePayment(actor, oid, gw) ==
    /\ IF ~OrderFound(oid)
       THEN /\ resp' = Resp("create_payment", 500, "ServerError", oid)
            /\ UNCHANGED orders
       ELSE IF orders[oid].user # actor /\ actor \notin Staff
       THEN /\ resp' = Resp("create_payment", 403, "Forbidden", oid)
            /\ UNCHANGED orders
       ELSE IF AlreadyPaidOrPending(orders[oid])
       THEN /\ resp' = Resp("create_payment", 400, "AlreadyPaidOrPending", oid)
            /\ UNCHANGED orders
       ELSE IF gw.kind = "created"
       THEN /\ orders' = [orders EXCEPT ![oid] = Pending(@, gw)]
            /\ resp' = [Resp("create_payment", 200, "ok", oid)
                           EXCEPT !.gateway = "create"]
       ELSE IF gw.kind = "failed"
       THEN /\ resp' = [Resp("create_payment", 500, "GatewayError", oid)
                           EXCEPT !.gateway = "create"]
            /\ UNCHANGED orders
       ELSE /\ resp' = [Resp("create_payment", 500, "ServerError", oid)
                           EXCEPT !.gateway = "create"]
            /\ UNCHANGED orders
    /\ UNCHANGED <<stock, carts, reqs, hist>>

\* PaymentSuccessAPIView.get with paymentId, PayerID and order_id given;
\* gw is what utils.execute_payment reports for the gateway's answer.  The
\* view looks neither at the order's status nor at its payment_status or
\* payment_id.  An unknown order_id raises Http404 inside the try and is
\* answered by the view's "except Exception".
PaymentSuccessAlways(oid, gw) ==
    /\ IF ~OrderFound(oid)
       THEN /\ resp' = Resp("payment_success", 500, "ServerError", oid)
            /\ UNCHANGED orders
       ELSE /\ orders' = [orders EXCEPT ![oid].payment_status = "Paid",
                                        ![oid].status = "Confirmed"]
            /\ resp' = [Resp("payment_success", IF gw THEN 200 ELSE 500,
                             IF gw THEN "ok" ELSE "GatewayError", oid)
                           EXCEPT !.gateway = "execute"]
    /\ UNCHANGED <<stock, carts, reqs, hist>>
PaymentSuccess(oid, gw) ==
    /\ IF ~OrderFound(oid)
       THEN /\ resp' = Resp("payment_success", 500, "ServerError", oid)
            /\ UNCHANGED orders
       ELSE IF gw
       THEN /\ orders' = [orders EXCEPT ![oid].payment_status = "Paid",
                                        ![oid].status = "Confirmed"]
            /\ resp' = [Resp("payment_success", 200, "ok", oid)
                           EXCEPT !.gateway = "execute"]
       ELSE /\ resp' = [Resp("payment_success", 500, "GatewayError", oid)
                           EXCEPT !.gateway = "execute"]
            /\ UNCHANGED orders
    /\ UNCHANGED <<stock, carts, reqs, hist>>

\* PaymentSuccessAPIView.get as the gateway's redirect calls it, paymentId
\* named: the view hands payment_id to execute_payment and to nothing else
\* (it is never compared with order.payment_id), so all that depends on it
\* is the gateway's answer gw.
PaymentSuccessCallback(payment_id, oid, gw) == PaymentSuccess(oid, gw)

\* PaymentCancelAPIView.get with order_id given.
PaymentCancelAnyStatus(oid) ==
    /\ IF ~OrderFound(oid)
       THEN /\ resp' = Resp("payment_cancel", 500, "ServerError", oid)
            /\ UNCHANGED orders
       ELSE /\ orders' = [orders EXCEPT ![oid].payment_status = "Unpaid",
                                        ![oid].payment_id = None]
            /\ resp' = Resp("payment_cancel", 200, "ok", oid)
    /\ UNCHANGED <<stock, carts, reqs, hist>>
PaymentCancel(oid) ==
    /\ IF ~OrderFound(oid)
       THEN /\ resp' = Resp("payment_cancel", 500, "ServerError", oid)
            /\ UNCHANGED orders
       ELSE /\ orders' = IF orders[oid].payment_status = "Payment Pending"
                         THEN [orders EXCEPT ![oid].payment_status = "Unpaid",
                                             ![oid].payment_id = None]
                         ELSE orders
            /\ resp' = Resp("payment_cancel", 200, "ok", oid)
    /\ UNCHANGED <<stock, carts, reqs, hist>>

-----------------------------------------------------------------------------
(* Concurrent request handlers *)

\* A request between is_valid() and save(): the products it loaded (mem)
\* stay as they were read while other requests commit.
Idle == [op |-> "idle"]

Request(op, actor, oid, items, mem) ==
    [op |-> op, phase |-> "validated", actor |-> actor, oid |-> oid,
     items |-> items, mem |-> mem, code |-> 0, err |-> "pending"]

Done(req, code, err) == [req EXCEPT !.phase = "done", !.code = code, !.err = err]

\* OrderViewSet.create up to and including serializer.is_valid().
ReceiveCreateOrder(w, actor, items) ==
    /\ reqs[w] = Idle
    /\ reqs' = [reqs EXCEPT ![w] =
                  Request("create_order", actor, 0, items,
                          to_internal_value(stock, items))]
    /\ UNCHANGED <<stock, orders, carts, resp, hist>>

\* OrderViewSet.create from perform_create on: OrderSerializer.create.
SaveCreateOrder(w) ==
    /\ reqs[w].op = "create_order"
    /\ reqs[w].phase = "validated"
    /\ \E r \in {OrderSerializer_create(stock, orders, reqs[w].actor, Absent,
                                        reqs[w].items, reqs[w].mem)} :
          /\ stock' = r.stock
          /\ orders' = r.orders
          /\ reqs' = [reqs EXCEPT ![w] = Done(@, StatusOf(r.err, 201), r.err)]
    /\ UNCHANGED <<carts, resp, hist>>

\* OrderViewSet.partial_update with an item list, by staff, up to and
\* including serializer.is_valid().
ReceiveUpdateOrder(w, actor, oid, items) ==
    /\ reqs[w] = Idle
    /\ IsAdminUser(actor)
    /\ OrderFound(oid)
    /\ reqs' = [reqs EXCEPT ![w] =
                  Request("update_order", actor, oid, items,
                          to_internal_value(stock, items))]
    /\ UNCHANGED <<stock, orders, carts, resp, hist>>

\* OrderViewSet.partial_update from perform_update on: OrderSerializer.update.
SaveUpdateOrder(w) ==
    /\ reqs[w].op = "update_order"
    /\ reqs[w].phase = "validated"
    /\ \E r \in {OrderSerializer_update(stock, orders[reqs[w].oid],
                     [status |-> Absent, has_items |-> TRUE,
                      items |-> reqs[w].items], reqs[w].mem)} :
          /\ stock' = r.stock
          /\ orders' = [orders EXCEPT ![reqs[w].oid] = r.order]
          /\ reqs' = [reqs EXCEPT ![w] = Done(@, StatusOf(r.err, 200), r.err)]
    /\ UNCHANGED <<carts, resp, hist>>

\* OrderSerializer.update with an item list, up to the loop that builds
\* dict_order_item: the order's rows and their products are read.
ReadOrderItems(w) ==
    /\ reqs[w].op = "update_order"
    /\ reqs[w].phase = "validated"
    /\ reqs' = [reqs EXCEPT ![w] =
          [op |-> "update_order", phase |-> "read", actor |-> reqs[w].actor,
           oid |-> reqs[w].oid, items |-> reqs[w].items, mem |-> reqs[w].mem,
           code |-> 0, err |-> "pending",
           rows |-> orders[reqs[w].oid].items,
           rowstock |-> [p \in ProductsOf(orders[reqs[w].oid].items) |->
                            stock[p]]]]
    /\ UNCHANGED <<stock, orders, carts, resp, hist>>

\* OrderSerializer.update from the loop over the submitted items on: the
\* bulk statements on OrderItem and Product.  (Rows carry no id here: the
\* step covers the rows read being still the order's rows, or no row
\* having been read.)
WriteOrderItems(w) ==
    /\ reqs[w].op = "update_order"
    /\ reqs[w].phase = "read"
    /\ reqs[w].rows \in {<<>>, orders[reqs[w].oid].items}
    /\ \E r \in {write_items(stock, orders[reqs[w].oid], reqs[w].rows,
                               reqs[w].rowstock, reqs[w].items, reqs[w].mem)} :
          /\ stock' = r.stock
          /\ orders' = [orders EXCEPT ![reqs[w].oid] = r.order]
          /\ reqs' = [reqs EXCEPT ![w] =
                [op |-> "update_order", phase |-> "done",
                 actor |-> reqs[w].actor, oid |-> reqs[w].oid,
                 items |-> reqs[w].items, mem |-> reqs[w].mem,
                 code |-> StatusOf(r.err, 200), err |-> r.err]]
    /\ UNCHANGED <<carts, resp, hist>>

\* What the gateway may answer to execute_payment.
ExecuteAnswers ==
    {[kind |-> "executed", payment_id |-> None],
     [kind |-> "failed", payment_id |-> None]}

NoAnswer == [kind |-> "none", payment_id |-> None]

\* A payment view after "order = get_object_or_404(Order, order_id=...)":
\* the view holds the order as it read it, and gw is what the gateway will
\* answer should the view call it.  A worker takes a new request once its
\* last one is answered.
LoadOrder(w, op, actor, oid, gw) ==
    /\ IF reqs[w] = Idle THEN TRUE ELSE reqs[w].phase = "done"
    /\ OrderFound(oid)
    /\ reqs' = [reqs EXCEPT ![w] =
          [op |-> op, phase |-> "loaded", actor |-> actor, oid |-> oid,
           order |-> orders[oid], gw |-> gw, code |-> 0, err |-> "pending"]]
    /\ UNCHANGED <<stock, orders, carts, resp, hist>>

\* The answer to the request of worker w.
Answered(w, code, err) ==
    [reqs EXCEPT ![w].phase = "done", ![w].code = code, ![w].err = err]

\* CreatePaymentAPIView.post from the permission check on: the checks look
\* at the order as loaded; save(update_fields=["payment_status",
\* "payment_id"]) writes those two columns of the row.
SaveCreatePayment(w) ==
    /\ reqs[w].op = "create_payment"
    /\ reqs[w].phase = "loaded"
    /\ IF reqs[w].order.user # reqs[w].actor /\ reqs[w].actor \notin Staff
       THEN /\ reqs' = Answered(w, 403, "Forbidden")
            /\ UNCHANGED orders
       ELSE IF AlreadyPaidOrPending(reqs[w].order)
       THEN /\ reqs' = Answered(w, 400, "AlreadyPaidOrPending")
            /\ UNCHANGED orders
       ELSE IF reqs[w].gw.kind = "created"
       THEN /\ orders' = [orders EXCEPT ![reqs[w].oid] =
                             Pending(@, reqs[w].gw)]
            /\ reqs' = Answered(w, 200, "ok")
       ELSE /\ reqs' = Answered(w, 500,
                           IF reqs[w].gw.kind = "failed"
                           THEN "GatewayError" ELSE "ServerError")
            /\ UNCHANGED orders
    /\ UNCHANGED <<stock, carts, resp, hist>>

\* PaymentSuccessAPIView.get from execute_payment on:
\* save(update_fields=["payment_status", "status"]).
SavePaymentSuccess(w) ==
    /\ reqs[w].op = "payment_success"
    /\ reqs[w].phase = "loaded"
    /\ IF reqs[w].gw.kind = "executed"
       THEN /\ orders' = [orders EXCEPT
                             ![reqs[w].oid].payment_status = "Paid",
                             ![reqs[w].oid].status = "Confirmed"]
            /\ reqs' = Answered(w, 200, "ok")
       ELSE /\ reqs' = Answered(w, 500, "GatewayError")
            /\ UNCHANGED orders
    /\ UNCHANGED <<stock, carts, resp, hist>>

\* A cancel callback that saved update_fields=["payment_status"] only.
SavePaymentCancelStatusOnly(w) ==
    /\ reqs[w].op = "payment_cancel"
    /\ reqs[w].phase = "loaded"
    /\ orders' = IF reqs[w].order.payment_status = "Payment Pending"
                 THEN [orders EXCEPT ![reqs[w].oid].payment_status = "Unpaid"]
                 ELSE orders
    /\ reqs' = Answered(w, 200, "ok")
    /\ UNCHANGED <<stock, carts, resp, hist>>

\* PaymentCancelAPIView.get from "if order.payment_status == PAYMENT_PENDING"
\* on: the test looks at the order as loaded;
\* save(update_fields=["payment_status", "payment_id"]).
SavePaymentCancel(w) ==
    /\ reqs[w].op = "payment_cancel"
    /\ reqs[w].phase = "loaded"
    /\ orders' = IF reqs[w].order.payment_status = "Payment Pending"
                 THEN [orders EXCEPT ![reqs[w].oid].payment_status = "Unpaid",
                                     ![reqs[w].oid].payment_id = None]
                 ELSE orders
    /\ reqs' = Answered(w, 200, "ok")
    /\ UNCHANGED <<stock, carts, resp, hist>>

\* CartViewSet.checkout up to and including serializer.is_valid(): inside
\* the transaction the view has read the cart (get_object takes no lock),
\* its items and the products they name.  A request that ends before that
\* (404, 403, empty cart) is answered at once.
LoadCart(w, actor, cid) ==
    /\ reqs[w] = Idle
    /\ reqs' = [reqs EXCEPT ![w] =
          LET code == IF ~CartVisible(actor, cid) THEN 404
                      ELSE IF carts[cid].user # actor THEN 403
                      ELSE IF CartIsEmpty(carts[cid]) THEN 400
                      ELSE 0
              cart == IF cid \in DOMAIN carts THEN carts[cid] ELSE Cart(None)
          IN  [op |-> "checkout",
               phase |-> IF code = 0 THEN "loaded" ELSE "done",
               actor |-> actor, cid |-> cid, cart |-> cart,
               mem |-> to_internal_value(stock, cart.items),
               code |-> code,
               err |-> IF code = 0 THEN "pending"
                       ELSE IF code = 404 THEN "NotFound"
                       ELSE IF code = 403 THEN "Forbidden" ELSE "EmptyCart"]]
    /\ UNCHANGED <<stock, orders, carts, resp, hist>>

\* CartViewSet.checkout from serializer.save() to the commit of the
\* transaction: the order is created from the cart items as read, the stock
\* written from the products as read, and cart.delete() deletes the cart
\* (a cart another request deleted meanwhile is no error: the DELETE
\* statements then match no row).  A failed creation is answered 500 and
\* rolled back.
CommitCheckout(w) ==
    /\ reqs[w].op = "checkout"
    /\ reqs[w].phase = "loaded"
    /\ \E r \in {OrderSerializer_create(stock, orders, reqs[w].actor, Absent,
                        reqs[w].cart.items, reqs[w].mem)} :
          IF r.err = "ok"
          THEN /\ stock' = r.stock
               /\ orders' = r.orders
               /\ carts' = [carts EXCEPT ![reqs[w].cid] = DeletedCart(@)]
               /\ reqs' = Answered(w, 201, "ok")
          ELSE /\ reqs' = Answered(w, 500, "ServerError")
               /\ UNCHANGED <<stock, orders, carts>>
    /\ UNCHANGED <<resp, hist>>

\* The same, on a database that refuses the writes of a transaction when
\* another one committed on the cart since it was read (a lock timeout or a
\* serialization failure, depending on the engine and isolation level the
\* settings choose): the exception is answered 500 and nothing is written.
AbortCheckout(w) ==
    /\ reqs[w].op = "checkout"
    /\ reqs[w].phase = "loaded"
    /\ carts[reqs[w].cid] # reqs[w].cart
    /\ reqs' = Answered(w, 500, "ServerError")
    /\ UNCHANGED <<stock, orders, carts, resp, hist>>

-----------------------------------------------------------------------------
(* Specifications *)

\* The user who places orders directly; any actor may try to update them.
Buyers == {"u1"}

\* Item lists over one product only.
ItemListsOn(P) == {l \in ItemLists : ProductsOf(l) \subseteq P}
UpdateDataOn(P) == {d \in UpdateData : ProductsOf(d.items) \subseteq P}

Init ==
    /\ stock = [p \in Products |-> InitStock]
    /\ orders = <<>>
    /\ carts = <<>>
    /\ resp = Resp("none", 0, "ok", 0)
    /\ reqs = [w \in Workers |-> Idle]
    /\ hist = <<>>

\* Orders over both products: creation and update (status and/or items).
Next ==
    \/ \E a \in Buyers, st \in StatusChoice \cup {Absent}, items \in ItemLists :
          CreateOrder(a, st, items) /\ UNCHANGED hist
    \/ \E a \in Staff, oid \in 1..MaxOrders, data \in UpdateData :
          UpdateOrder(a, oid, data) /\ UNCHANGED hist
    \/ \E a \in Customers, oid \in 1..MaxOrders :
          UpdateOrder(a, oid, EmptyPatch) /\ UNCHANGED hist

Spec == Init /\ [][Next]_vars

\* Carts and checkout; orders placed directly lower the stock meanwhile.
NextCart ==
    \/ \E a \in Customers, items \in ItemLists : CreateCart(a, items)
    \/ \E a \in Actors, cid \in 1..MaxCarts : Checkout(a, cid)
    \/ \E a \in Buyers, items \in ItemListsOn({"P1"}) :
          CreateOrder(a, Absent, items) /\ UNCHANGED hist
    \/ \E a \in Actors, cid \in 1..MaxCarts, items \in ItemLists :
          UpdateCart(a, cid, items)
    \/ \E a \in Actors, cid \in 1..MaxCarts : DeleteCart(a, cid)

SpecCart == Init /\ [][NextCart]_vars

\* Every stock-changing operation together, on item lists over product P1.
NextAll ==
    \/ \E a \in Buyers, st \in StatusChoice \cup {Absent},
          items \in ItemListsOn({"P1"}) :
          CreateOrder(a, st, items) /\ UNCHANGED hist
    \/ \E a \in Staff, oid \in 1..MaxOrders, data \in UpdateDataOn({"P1"}) :
          UpdateOrder(a, oid, data) /\ UNCHANGED hist
    \/ \E a \in Buyers, items \in ItemListsOn({"P1"}) : CreateCart(a, items)
    \/ \E a \in Buyers, cid \in 1..MaxCarts : Checkout(a, cid)
    \/ \E oid \in 1..MaxOrders, gw \in BOOLEAN : PaymentSuccess(oid, gw)

SpecAll == Init /\ [][NextAll]_vars

\* Orders created, updated and deleted, by whoever asks, on item lists over
\* product P1.
NextOrders ==
    \/ \E a \in Buyers, items \in ItemListsOn({"P1"}) :
          CreateOrder(a, Absent, items) /\ UNCHANGED hist
    \/ \E a \in Actors, oid \in 1..MaxOrders, data \in UpdateDataOn({"P1"}) :
          UpdateOrder(a, oid, data) /\ UNCHANGED hist
    \/ \E a \in Actors, oid \in 1..MaxOrders : DeleteOrder(a, oid)

SpecOrders == Init /\ [][NextOrders]_vars

\* Every operation that takes an item list: orders and carts, created and
\* updated, and the checkout that turns a cart into an order.
ItemsPatch(items) == [status |-> Absent, has_items |-> TRUE, items |-> items]

NextLines ==
    \/ \E a \in Buyers, items \in ItemLists :
          CreateOrder(a, Absent, items) /\ UNCHANGED hist
    \/ \E a \in Staff, oid \in 1..MaxOrders, items \in ItemLists :
          UpdateOrder(a, oid, ItemsPatch(items)) /\ UNCHANGED hist
    \/ \E a \in Buyers, items \in ItemLists : CreateCart(a, items)
    \/ \E a \in Buyers, cid \in 1..MaxCarts, items \in ItemLists :
          UpdateCart(a, cid, items)
    \/ \E a \in Buyers, cid \in 1..MaxCarts : Checkout(a, cid)

SpecLines == Init /\ [][NextLines]_vars

\* Item-list updates of an order one after the other, each recorded in hist
\* with the list it carried, the stock and the order it found and the answer
\* it got; hist keeps the last MaxHist of them, and any other request in
\* between empties it.
Reconcile(actor, oid, items) ==
    /\ oid \in DOMAIN orders
    /\ UpdateOrder(actor, oid, ItemsPatch(items))
    /\ hist' = LET h == Append(hist, [oid |-> oid, items |-> items,
                                       stock |-> stock, order |-> orders[oid],
                                       err |-> resp'.err])
               IN  IF Len(h) > MaxHist THEN Tail(h) ELSE h

\* Item lists without a zero quantity (a zero only makes the request fail).
PositiveLists ==
    {l \in ItemLists : \A i \in DOMAIN l : l[i].quantity > 0}

NextRecon ==
    \/ \E a \in Buyers, items \in PositiveLists \cap ItemListsOn({"P1"}) :
          CreateOrder(a, Absent, items) /\ hist' = <<>>
    \/ \E a \in Staff, oid \in 1..MaxOrders, items \in PositiveLists :
          Reconcile(a, oid, items)

SpecRecon == Init /\ [][NextRecon]_vars

\* The payment views, on orders that staff may confirm or cancel meanwhile.
StatusPatches ==
    {d \in UpdateData : ~d.has_items /\ d.status # Absent}

NextPay ==
    \/ \E a \in Buyers, items \in ItemListsOn({"P1"}) :
          CreateOrder(a, Absent, items) /\ UNCHANGED hist
    \/ \E a \in Staff, oid \in 1..MaxOrders, data \in StatusPatches :
          UpdateOrder(a, oid, data) /\ UNCHANGED hist
    \/ \E a \in Actors, oid \in 1..MaxOrders, gw \in CreateAnswers :
          CreatePayment(a, oid, gw)
    \/ \E oid \in 1..MaxOrders, gw \in BOOLEAN : PaymentSuccess(oid, gw)
    \/ \E oid \in 1..MaxOrders : PaymentCancel(oid)

SpecPay == Init /\ [][NextPay]_vars

\* The payment views on orders created in any status, with item-list
\* updates of the orders in between (the only order updates here).
NextPayLines ==
    \/ \E a \in Buyers, st \in StatusChoice \cup {Absent},
          items \in ItemListsOn({"P1"}) :
          CreateOrder(a, st, items) /\ UNCHANGED hist
    \/ \E a \in Staff, oid \in 1..MaxOrders, items \in ItemListsOn({"P1"}) :
          UpdateOrder(a, oid, ItemsPatch(items)) /\ UNCHANGED hist
    \/ \E a \in Actors, oid \in 1..MaxOrders, gw \in CreateAnswers :
          CreatePayment(a, oid, gw)
    \/ \E oid \in 1..MaxOrders, gw \in BOOLEAN : PaymentSuccess(oid, gw)
    \/ \E oid \in 1..MaxOrders : PaymentCancel(oid)

SpecPayLines == Init /\ [][NextPayLines]_vars

\* Two workers, one request each, against the database left by one order of
\* u1 for a single unit of P1.
SeedOrder == OrderSerializer_create([p \in Products |-> InitStock], <<>>, "u1",
                 Absent, <<Item("P1", 1)>>, [p \in {"P1"} |-> InitStock])

InitConc ==
    /\ stock = SeedOrder.stock
    /\ orders = SeedOrder.orders
    /\ carts = <<>>
    /\ resp = Resp("none", 0, "ok", 0)
    /\ reqs = [w \in Workers |-> Idle]
    /\ hist = <<>>

NextConc ==
    \/ \E w \in Workers, a \in Buyers, items \in ItemLists :
          ReceiveCreateOrder(w, a, items)
    \/ \E w \in Workers : SaveCreateOrder(w)
    \/ \E w \in Workers, a \in Staff, oid \in 1..MaxOrders, items \in ItemLists :
          ReceiveUpdateOrder(w, a, oid, items)
    \/ \E w \in Workers : SaveUpdateOrder(w)

SpecConc == InitConc /\ [][NextConc]_vars

\* Two workers, one request each (an order creation or an item-list update
\* of order 1), against the database left by one order of u1 without items;
\* the update reads the order's rows in one step and writes in a later one.
SeedEmptyOrder ==
    OrderSerializer_create([p \in Products |-> InitStock], <<>>, "u1", Absent,
                           <<>>, to_internal_value(<<>>, <<>>))

InitRows ==
    /\ stock = SeedEmptyOrder.stock
    /\ orders = SeedEmptyOrder.orders
    /\ carts = <<>>
    /\ resp = Resp("none", 0, "ok", 0)
    /\ reqs = [w \in Workers |-> Idle]
    /\ hist = <<>>

NextRows ==
    \/ \E w \in Workers, a \in Buyers, items \in PositiveLists :
          ReceiveCreateOrder(w, a, items)
    \/ \E w \in Workers : SaveCreateOrder(w)
    \/ \E w \in Workers, a \in Staff, oid \in 1..MaxOrders,
          items \in PositiveLists :
          ReceiveUpdateOrder(w, a, oid, items)
    \/ \E w \in Workers : ReadOrderItems(w)
    \/ \E w \in Workers : WriteOrderItems(w)

SpecRows == InitRows /\ [][NextRows]_vars

\* A cart is created; two workers then serve one checkout request each,
\* reading the cart in one step and committing in a later one.
NextCheckout ==
    \/ \E a \in Customers, items \in ItemLists : CreateCart(a, items)
    \/ \E w \in Workers, a \in Customers, cid \in 1..MaxCarts :
          LoadCart(w, a, cid)
    \/ \E w \in Workers : CommitCheckout(w)
    \/ \E w \in Workers : AbortCheckout(w)

SpecCheckout == Init /\ [][NextCheckout]_vars

\* Two workers serving payment requests for the seeded order of u1, each
\* request loading the order in one step and writing in a later one.
NextPayConc ==
    \/ \E w \in Workers, a \in Buyers, oid \in 1..MaxOrders,
          gw \in CreateAnswers :
          LoadOrder(w, "create_payment", a, oid, gw)
    \/ \E w \in Workers, oid \in 1..MaxOrders, gw \in ExecuteAnswers :
          LoadOrder(w, "payment_success", None, oid, gw)
    \/ \E w \in Workers, oid \in 1..MaxOrders :
          LoadOrder(w, "payment_cancel", None, oid, NoAnswer)
    \/ \E w \in Workers : SaveCreatePayment(w)
    \/ \E w \in Workers : SavePaymentSuccess(w)
    \/ \E w \in Workers : SavePaymentCancel(w)

SpecPayConc == InitConc /\ [][NextPayConc]_vars

-----------------------------------------------------------------------------
(* Properties *)

CancelPatch == [status |-> "Cancelled", has_items |-> FALSE, items |-> <<>>]

\* Units of product p held by the line items of orders that are not Cancelled.
RECURSIVE Reserved(_, _)
Reserved(os, p) ==
    IF os = <<>> THEN 0
    ELSE (IF Head(os).status # "Cancelled" THEN QtyOn(Head(os).items, p) ELSE 0)
         + Reserved(Tail(os), p)

\* Units of product p held by all line items of all orders.
RECURSIVE Held(_, _)
Held(os, p) ==
    IF os = <<>> THEN 0 ELSE QtyOn(Head(os).items, p) + Held(Tail(os), p)

\* C1: after any sequence of order creations, order updates (items and/or
\* status) and cart checkouts, every product's stock is >= 0.
C1_StockNonNegative == \A p \in Products : stock[p] >= 0

\* C1 witness: a request that reserved stock was accepted and used up the
\* last unit of a product.
C1_Witness ==
    /\ resp.op \in {"create_order", "update_order", "checkout"}
    /\ resp.err = "ok"
    /\ \E p \in Products : stock[p] = 0 /\ Held(orders, p) > 0

\* C5: a status update to Cancelled on an order that is already Cancelled
\* leaves every product's stock as it was.
C5_SecondCancelKeepsStock ==
    [][\A a \in Staff, oid \in 1..MaxOrders :
          (/\ oid \in DOMAIN orders
           /\ orders[oid].status = "Cancelled"
           /\ UpdateOrder(a, oid, CancelPatch))
          => stock' = stock]_vars

\* C10: checkout of a cart without items, by its owner, fails with EmptyCart
\* and leaves the cart, the orders and every product's stock as they were.
C10_EmptyCartCheckout ==
    [][\A a \in Actors, cid \in 1..MaxCarts :
          (/\ CartVisible(a, cid)
           /\ carts[cid].user = a
           /\ carts[cid].items = <<>>
           /\ Checkout(a, cid))
          => /\ resp'.code = 400
             /\ resp'.err = "EmptyCart"
             /\ UNCHANGED <<stock, orders, carts>>]_vars

\* C10 witness: a checkout was answered EmptyCart and the cart, which has no
\* items, is still there.
C10_Witness ==
    /\ resp.op = "checkout"
    /\ resp.err = "EmptyCart"
    /\ carts[resp.id].exists
    /\ carts[resp.id].items = <<>>

\* C4: stock conservation.  For every product, the stock plus the quantities
\* of its line items in orders that are not Cancelled equals the initial
\* stock.
C4_StockConservation ==
    \A p \in Products : stock[p] + Reserved(orders, p) = InitStock

\* C6: cancelling a Pending or Confirmed order sets its status to Cancelled
\* and gives every product back exactly the quantity the order's line items
\* hold on it; products the order does not name keep their stock.
C6_CancelRestoresStock ==
    [][\A a \in Staff, oid \in 1..MaxOrders :
          (/\ oid \in DOMAIN orders
           /\ orders[oid].status \in {"Pending", "Confirmed"}
           /\ UpdateOrder(a, oid, CancelPatch))
          => /\ orders'[oid].status = "Cancelled"
             /\ \A p \in Products :
                   stock'[p] = stock[p] + QtyOn(orders[oid].items, p)]_vars

\* C7: an order's status only moves Pending -> Confirmed and
\* Pending/Confirmed -> Cancelled; a Cancelled order never becomes Pending
\* or Confirmed again.
C7_StatusTransitions ==
    [][\A oid \in DOMAIN orders :
          orders'[oid].status # orders[oid].status
          => \/ /\ orders[oid].status = "Pending"
                /\ orders'[oid].status = "Confirmed"
             \/ /\ orders[oid].status \in {"Pending", "Confirmed"}
                /\ orders'[oid].status = "Cancelled"]_vars

\* C8: a checkout by the owner of a cart that has items, each with a
\* quantity within the product's current stock, creates one order of that
\* user holding the cart's items, takes the items' quantities off the stock
\* and deletes the cart.
C8_CheckoutSucceeds ==
    [][\A a \in Actors, cid \in 1..MaxCarts :
          (/\ CartVisible(a, cid)
           /\ carts[cid].user = a
           /\ carts[cid].items # <<>>
           /\ \A i \in DOMAIN carts[cid].items :
                 carts[cid].items[i].quantity
                    <= stock[carts[cid].items[i].product]
           /\ Checkout(a, cid))
          => /\ Len(orders') = Len(orders) + 1
             /\ orders'[Len(orders')].user = a
             /\ orders'[Len(orders')].items = carts[cid].items
             /\ \A p \in Products :
                   stock'[p] = stock[p] - QtyOn(carts[cid].items, p)
             /\ ~carts'[cid].exists]_vars

\* C9: when the order creation of a checkout fails because a product's stock
\* is below a cart item's quantity, the checkout fails with InsufficientStock
\* and the cart, the orders and every product's stock are as they were.
C9_CheckoutFailureAtomic ==
    [][\A a \in Actors, cid \in 1..MaxCarts :
          (/\ CartVisible(a, cid)
           /\ carts[cid].user = a
           /\ \E i \in DOMAIN carts[cid].items :
                 carts[cid].items[i].quantity
                    > stock[carts[cid].items[i].product]
           /\ Checkout(a, cid))
          => /\ resp'.err = "InsufficientStock"
             /\ UNCHANGED <<stock, orders, carts>>]_vars

\* What does hold of a failed checkout: nothing of it is committed.
CheckoutFailureLeavesState ==
    [][(resp'.op = "checkout" /\ resp'.code # 201)
          => UNCHANGED <<stock, orders, carts>>]_vars

\* What does hold of C6 and C8: both hold of orders and carts whose line
\* items name pairwise different products.
UniqueProducts(items) ==
    \A i, j \in DOMAIN items : items[i].product = items[j].product => i = j

CancelRestoresStockOfUniqueLines ==
    [][\A a \in Staff, oid \in 1..MaxOrders :
          (/\ oid \in DOMAIN orders
           /\ orders[oid].status \in {"Pending", "Confirmed"}
           /\ UniqueProducts(orders[oid].items)
           /\ UpdateOrder(a, oid, CancelPatch))
          => /\ orders'[oid].status = "Cancelled"
             /\ \A p \in Products :
                   stock'[p] = stock[p] + QtyOn(orders[oid].items, p)]_vars

CheckoutOfUniqueLinesSucceeds ==
    [][\A a \in Actors, cid \in 1..MaxCarts :
          (/\ CartVisible(a, cid)
           /\ carts[cid].user = a
           /\ carts[cid].items # <<>>
           /\ UniqueProducts(carts[cid].items)
           /\ \A i \in DOMAIN carts[cid].items :
                 carts[cid].items[i].quantity
                    <= stock[carts[cid].items[i].product]
           /\ Checkout(a, cid))
          => /\ Len(orders') = Len(orders) + 1
             /\ orders'[Len(orders')].user = a
             /\ orders'[Len(orders')].items = carts[cid].items
             /\ \A p \in Products :
                   stock'[p] = stock[p] - QtyOn(carts[cid].items, p)
             /\ ~carts'[cid].exists]_vars

-----------------------------------------------------------------------------
(* Properties of item lists (SpecLines, SpecCart) *)

HasZero(items) == \E i \in DOMAIN items : items[i].quantity = 0
ZeroLists == {l \in ItemLists : HasZero(l)}
FirstZero(items) == Min({i \in DOMAIN items : items[i].quantity = 0})

\* No line item of the orders os and the carts cs has quantity 0.
NoZeroLine(os, cs) ==
    /\ \A o \in DOMAIN os : ~HasZero(os[o].items)
    /\ \A c \in DOMAIN cs : ~HasZero(cs[c].items)

\* The step is a creation or an item-list update, of an order or of a cart,
\* that carries the item list `items`.
CarriesList(items) ==
    \/ /\ resp'.op = "create_order"
       /\ \E a \in Buyers : CreateOrder(a, Absent, items)
    \/ /\ resp'.op = "update_order"
       /\ \E a \in Staff, oid \in DOMAIN orders :
             UpdateOrder(a, oid, ItemsPatch(items))
    \/ /\ resp'.op = "create_cart"
       /\ \E a \in Buyers : CreateCart(a, items)
    \/ /\ resp'.op = "update_cart"
       /\ \E a \in Buyers, cid \in DOMAIN carts :
             CartVisible(a, cid) /\ UpdateCart(a, cid, items)

\* C17 as stated: no line item with quantity 0 is ever persisted, and every
\* creation or item-list update of a cart or an order whose list holds a
\* quantity 0 fails with InvalidQuantity.
C17_ZeroQuantityIsInvalidQuantity ==
    [][/\ NoZeroLine(orders', carts')
       /\ resp'.err # "InvalidQuantity"
             => \A items \in ZeroLists : ~CarriesList(items)]_vars

\* C17 as amended: no line item with quantity 0 is ever persisted, and every
\* creation or item-list update of a cart or an order whose list holds a
\* quantity 0 fails with a validation error (400): with InvalidQuantity, or
\* with InsufficientStock, which only happens when the first zero is not the
\* first item of the list.
C17_ZeroQuantityRejected ==
    [][/\ NoZeroLine(orders', carts')
       /\ resp'.err # "InvalidQuantity"
             => \A items \in ZeroLists :
                   CarriesList(items)
                      => /\ resp'.err = "InsufficientStock"
                         /\ resp'.code = 400
                         /\ FirstZero(items) > 1]_vars

\* C17 witness: the update of a cart that holds items was refused with
\* InvalidQuantity, and the cart still holds no zero quantity.
C17_Witness ==
    /\ resp.op = "update_cart"
    /\ resp.err = "InvalidQuantity"
    /\ carts[resp.id].items # <<>>
    /\ ~HasZero(carts[resp.id].items)

\* C18: every order and every cart holds at most one line item per product.
C18_OneLinePerProduct ==
    /\ \A o \in DOMAIN orders : UniqueProducts(orders[o].items)
    /\ \A c \in DOMAIN carts : UniqueProducts(carts[c].items)

\* C19: an order update that fails with InvalidQuantity or InsufficientStock
\* (only a request carrying an item list can) leaves the order's status, its
\* line items and every product's stock exactly as they were.
C19_FailedUpdateLeavesState ==
    [][(/\ resp'.op = "update_order"
        /\ resp'.err \in {"InvalidQuantity", "InsufficientStock"})
          => /\ stock' = stock
             /\ orders' = orders]_vars

\* C20: creating, updating and deleting a cart, accepted or refused, leave
\* every product's stock as it was (each of these requests is recognised by
\* the operation its response names).
C20_CartsHoldNoReservation ==
    [][resp'.op \in {"create_cart", "update_cart", "delete_cart"}
          => stock' = stock]_vars

\* C20 witness: a cart holding items was just updated with success while
\* every product still has its initial stock.
C20_Witness ==
    /\ resp.op = "update_cart"
    /\ resp.code = 200
    /\ carts[resp.id].items # <<>>
    /\ \A p \in Products : stock[p] = InitStock

-----------------------------------------------------------------------------
(* Properties of consecutive item-list updates (SpecRecon) *)

NoWrites == [updates |-> 0, creates |-> 0, deletes |-> 0, stock_writes |-> 0]

\* The last recorded request updated order oid with the list `items` and
\* was accepted.
JustReconciled(oid, items) ==
    /\ hist # <<>>
    /\ hist[Len(hist)].oid = oid
    /\ hist[Len(hist)].items = items
    /\ hist[Len(hist)].err = "ok"

\* C11: updating an order's items a second time in a row with the same list
\* schedules no line-item update, create or delete and no stock write, and
\* leaves the order's items and every product's stock unchanged.
C11_SecondReconcileIsNoOp ==
    [][\A a \in Staff, oid \in 1..MaxOrders, items \in PositiveLists :
          (/\ JustReconciled(oid, items)
           /\ Reconcile(a, oid, items))
          => /\ ScheduledWrites(orders[oid], items,
                                to_internal_value(stock, items)) = NoWrites
             /\ resp'.code = 200
             /\ stock' = stock
             /\ orders'[oid].items = orders[oid].items]_vars

\* What does hold of C11: when the list, and the line items the order had
\* before the first update, name pairwise different products, the second
\* update is accepted and changes neither the items nor the stock (it
\* rewrites the values they have).
SecondReconcileKeepsState ==
    [][\A a \in Staff, oid \in 1..MaxOrders, items \in PositiveLists :
          (/\ JustReconciled(oid, items)
           /\ UniqueProducts(items)
           /\ UniqueProducts(hist[Len(hist)].order.items)
           /\ Reconcile(a, oid, items))
          => /\ resp'.code = 200
             /\ stock' = stock
             /\ orders'[oid].items = orders[oid].items]_vars

\* The list names product p exactly once, with quantity q.
NamesOnce(items, p, q) ==
    /\ Cardinality({i \in DOMAIN items : items[i].product = p}) = 1
    /\ \E i \in DOMAIN items : items[i] = Item(p, q)

\* The quantity of the line item of `order` that an update addresses for
\* product p (the row dict_order_item holds for it).
LineQuantity(order, p) == order.items[dict_order_item(order.items)[p]].quantity

\* The two recorded requests are accepted updates of one order; the first
\* grew its line on p from prev to q, within the stock, and the second
\* shrank it back to prev.
GrewThenShrank(p, prev, q) ==
    /\ Len(hist) = 2
    /\ hist[1].oid = hist[2].oid
    /\ hist[1].err = "ok"
    /\ hist[2].err = "ok"
    /\ p \in ProductsOf(hist[1].order.items)
    /\ LineQuantity(hist[1].order, p) = prev
    /\ q > prev
    /\ q - prev <= hist[1].stock[p]
    /\ NamesOnce(hist[1].items, p, q)
    /\ NamesOnce(hist[2].items, p, prev)

\* C12: growing an order's line item on P from prev to q (q - prev within
\* P's stock) and then shrinking it back to prev leaves P's stock and the
\* persisted quantity as they were before the growth.
C12_GrowThenShrink ==
    \A p \in Products, prev \in 1..MaxQty, q \in 1..MaxQty :
        GrewThenShrank(p, prev, q)
           => /\ stock[p] = hist[1].stock[p]
              /\ p \in ProductsOf(orders[hist[2].oid].items)
              /\ LineQuantity(orders[hist[2].oid], p) = prev

\* C12 witness: a line on P1 was grown from 1 to 2 and shrunk back to 1,
\* both updates accepted.
C12_Witness == GrewThenShrank("P1", 1, 2)

-----------------------------------------------------------------------------
(* Properties of the payment views (SpecPay) *)

\* C13: a payment-success callback replayed for an order that is already
\* Paid is answered with success, whatever the gateway says to the repeated
\* execute, and leaves status and payment_status as they were.
C13_ReplayedCallbackIsNoOp ==
    [][\A oid \in 1..MaxOrders, gw \in BOOLEAN :
          (/\ oid \in DOMAIN orders
           /\ orders[oid].payment_status = "Paid"
           /\ PaymentSuccess(oid, gw))
          => /\ resp'.code = 200
             /\ orders'[oid].status = orders[oid].status
             /\ orders'[oid].payment_status = "Paid"]_vars

\* The actor may pay for the order: its owner, or staff.
MayPay(actor, oid) ==
    /\ oid \in DOMAIN orders
    /\ (orders[oid].user = actor \/ actor \in Staff)

\* C14: starting a payment for an order that is Paid or Payment Pending
\* fails with AlreadyPaidOrPending, calls no gateway and leaves the order
\* (payment_status, payment_id, status) as it was.
C14_BeginOnPaidOrPending ==
    [][\A a \in Actors, oid \in 1..MaxOrders, gw \in CreateAnswers :
          (/\ MayPay(a, oid)
           /\ orders[oid].payment_status \in {"Paid", "Payment Pending"}
           /\ CreatePayment(a, oid, gw))
          => /\ resp'.code = 400
             /\ resp'.err = "AlreadyPaidOrPending"
             /\ resp'.gateway = "none"
             /\ orders' = orders]_vars

\* C14 witness: a payment start was refused for an order that is Payment
\* Pending and holds the payment id of the earlier start.
C14_Witness ==
    /\ resp.op = "create_payment"
    /\ resp.err = "AlreadyPaidOrPending"
    /\ orders[resp.id].payment_status = "Payment Pending"
    /\ orders[resp.id].payment_id \in PaymentIds

\* C15: when the gateway fails, in the creation of the payment or in its
\* execution, the request reports an error and the order is exactly as it
\* was (status, payment_status, payment_id).
C15_GatewayFailureLeavesOrder ==
    [][/\ \A a \in Actors, oid \in 1..MaxOrders, gw \in CreateAnswers :
            (/\ MayPay(a, oid)
             /\ ~AlreadyPaidOrPending(orders[oid])
             /\ gw.kind # "created"
             /\ CreatePayment(a, oid, gw))
            => /\ resp'.code = 500
               /\ resp'.gateway = "create"
               /\ orders' = orders
       /\ \A oid \in 1..MaxOrders :
            (/\ oid \in DOMAIN orders
             /\ PaymentSuccess(oid, FALSE))
            => /\ resp'.code = 500
               /\ resp'.err = "GatewayError"
               /\ orders' = orders]_vars

\* C15 witness: the execution of a payment failed at the gateway for an
\* order whose payment was started, and the order is still Payment Pending.
C15_Witness ==
    /\ resp.op = "payment_success"
    /\ resp.err = "GatewayError"
    /\ resp.gateway = "execute"
    /\ orders[resp.id].payment_status = "Payment Pending"

\* C16: a payment-cancel callback answers success; it turns Payment Pending
\* into Unpaid and clears payment_id, changes nothing of an order that is
\* Unpaid or Paid, and never touches the order's status, its items or any
\* stock.
C16_CancelPending ==
    [][\A oid \in 1..MaxOrders :
          (/\ oid \in DOMAIN orders
           /\ PaymentCancel(oid))
          => /\ resp'.code = 200
             /\ stock' = stock
             /\ orders'[oid].status = orders[oid].status
             /\ orders'[oid].items = orders[oid].items
             /\ IF orders[oid].payment_status = "Payment Pending"
                THEN /\ orders'[oid].payment_status = "Unpaid"
                     /\ orders'[oid].payment_id = None
                ELSE orders' = orders]_vars

\* C16 witness: a payment-cancel callback was answered with success for an
\* order that is Paid and still holds its payment id.
C16_Witness ==
    /\ resp.op = "payment_cancel"
    /\ resp.code = 200
    /\ orders[resp.id].payment_status = "Paid"
    /\ orders[resp.id].payment_id \in PaymentIds

\* The step is a request of actor a on order oid: an update (of the status,
\* the items or both) or a delete.
ActsOnOrder(a, oid) ==
    \/ /\ resp'.op = "update_order"
       /\ \E data \in UpdateDataOn({"P1"}) : UpdateOrder(a, oid, data)
    \/ /\ resp'.op = "delete_order"
       /\ DeleteOrder(a, oid)

\* C22: an update (status or items) or a delete of an existing order by a
\* user who is not staff, the order's owner included, is answered 403
\* Forbidden and leaves the order (status, line items) and every product's
\* stock as they were; the same request by staff is let through: it is
\* answered neither Forbidden nor NotFound, and the delete by staff removes
\* the order.  (Each conjunct reads "a step that lacks the outcome is not
\* such a request".)
C22_OnlyStaffChangesOrders ==
    [][\A oid \in 1..MaxOrders :
          (/\ OrderFound(oid)
           /\ resp'.id = oid)
          => /\ \A a \in Customers :
                   ~(/\ resp'.code = 403
                     /\ resp'.err = "Forbidden"
                     /\ UNCHANGED <<stock, orders>>)
                   => ~ActsOnOrder(a, oid)
             /\ \A a \in Staff :
                   /\ (\/ resp'.code \in {403, 404}
                       \/ resp'.err \in {"NotFound", "Forbidden"})
                         => ~ActsOnOrder(a, oid)
                   /\ ~(resp'.code = 204 /\ ~orders'[oid].exists)
                         => ~DeleteOrder(a, oid)]_vars

\* C22 witness: a delete was answered Forbidden and the order, which holds
\* line items, is still there.
C22_Witness ==
    /\ resp.op = "delete_order"
    /\ resp.code = 403
    /\ OrderFound(resp.id)
    /\ orders[resp.id].items # <<>>

\* C33: deleting an order removes the order and all of its line items and
\* leaves every product's stock as it was, whatever the order's status: the
\* stock a non-cancelled order holds is not returned by the deletion.
C33_DeleteCascadesAndKeepsStock ==
    [][\A a \in Staff, oid \in 1..MaxOrders :
          (OrderFound(oid) /\ DeleteOrder(a, oid))
          => /\ resp'.code = 204
             /\ ~OrderFound(oid)'
             /\ orders'[oid].items = <<>>
             /\ stock' = stock]_vars

\* C33 witness: an order that was not cancelled and held units of P1 was
\* deleted with its lines, and the units are still missing from the stock.
C33_Witness ==
    /\ resp.op = "delete_order"
    /\ resp.code = 204
    /\ ~OrderFound(resp.id)
    /\ orders[resp.id].items = <<>>
    /\ orders[resp.id].status # "Cancelled"
    /\ stock["P1"] < InitStock

-----------------------------------------------------------------------------
(* Properties of the item-list update (SpecLines, SpecRecon, SpecCart) *)

UniqueLists == {l \in ItemLists : UniqueProducts(l)}

\* The rows are the items of the list D, one row each.
SameLines(rows, D) ==
    /\ Len(rows) = Len(D)
    /\ {rows[i] : i \in DOMAIN rows} = {D[i] : i \in DOMAIN D}

\* The step is an accepted item-list update, carrying the list D, of order
\* id (kind "order") or of cart id (kind "cart").
UpdatedWith(kind, id, D) ==
    /\ resp'.code = 200
    /\ resp'.id = id
    /\ \/ /\ kind = "order"
          /\ resp'.op = "update_order"
          /\ OrderFound(id)
          /\ \E a \in Staff : UpdateOrder(a, id, ItemsPatch(D))
       \/ /\ kind = "cart"
          /\ resp'.op = "update_cart"
          /\ \E a \in Buyers : CartVisible(a, id) /\ UpdateCart(a, id, D)

\* C23: after an accepted item-list update of a cart or an order with a
\* desired list D of pairwise different products, the persisted line items
\* of that cart or order are exactly D (products new in D created, products
\* with another quantity updated, products absent from D deleted).
C23_LinesEqualDesired ==
    [][\A D \in UniqueLists :
          /\ \A oid \in 1..MaxOrders :
                UpdatedWith("order", oid, D) => SameLines(orders'[oid].items, D)
          /\ \A cid \in 1..MaxCarts :
                UpdatedWith("cart", cid, D) => SameLines(carts'[cid].items, D)]_vars

\* What does hold of C23: the same, of carts and orders whose persisted line
\* items name pairwise different products.
LinesOfUniqueRowsEqualDesired ==
    [][\A D \in UniqueLists :
          /\ \A oid \in 1..MaxOrders :
                (/\ UpdatedWith("order", oid, D)
                 /\ UniqueProducts(orders[oid].items))
                => SameLines(orders'[oid].items, D)
          /\ \A cid \in 1..MaxCarts :
                (/\ UpdatedWith("cart", cid, D)
                 /\ UniqueProducts(carts[cid].items))
                => SameLines(carts'[cid].items, D)]_vars

\* C24: after an accepted item-list update of an order from the existing
\* items E to the desired items D, every product's stock has changed by
\* exactly E(P) - D(P), the quantities E and D hold on P (0 when absent).
C24_StockMovesByDelta ==
    [][\A oid \in 1..MaxOrders, D \in ItemLists :
          UpdatedWith("order", oid, D)
          => \A p \in Products :
                stock'[p] = stock[p] + QtyOn(orders[oid].items, p) - QtyOn(D, p)]_vars

\* What does hold of C24: the same, of orders whose persisted line items
\* name pairwise different products.
StockOfUniqueRowsMovesByDelta ==
    [][\A oid \in 1..MaxOrders, D \in ItemLists :
          (/\ UpdatedWith("order", oid, D)
           /\ UniqueProducts(orders[oid].items))
          => \A p \in Products :
                stock'[p] = stock[p] + QtyOn(orders[oid].items, p) - QtyOn(D, p)]_vars

\* The last item-list update recorded in hist.
LastUpdate == hist[Len(hist)]

\* Item `it` of an update asks for more units than dbstock has: the
\* increment over the line item the order holds on its product (the row the
\* update addresses) when it grows that item, its whole quantity when the
\* order holds no line item on the product.
LacksStock(order, dbstock, it) ==
    IF it.product \in ProductsOf(order.items)
    THEN /\ it.quantity > LineQuantity(order, it.product)
         /\ it.quantity - LineQuantity(order, it.product) > dbstock[it.product]
    ELSE it.quantity > dbstock[it.product]

CartUpdatedWith(cid, D) ==
    /\ resp'.op = "update_cart"
    /\ resp'.id = cid
    /\ resp'.code # 404
    /\ carts[cid].exists
    /\ UpdateCart(carts[cid].user, cid, D)

\* The lists that only address cart items the cart holds: pairwise
\* different products, each with a row in the cart, no quantity 0.
ListsOnRowsOf(cart) ==
    {D \in PositiveLists \cap UniqueLists :
        ProductsOf(D) \subseteq ProductsOf(cart.items)}

\* Item `it` grows the cart item it addresses and the increment exceeds the
\* product's stock.
IncrementLacks(cart, it) ==
    /\ it.quantity > LineQuantity(cart, it.product)
    /\ it.quantity - LineQuantity(cart, it.product) > stock[it.product]

\* Item `it` grows the cart item it addresses and the new quantity exceeds
\* the product's stock.
QuantityLacks(cart, it) ==
    /\ it.quantity > LineQuantity(cart, it.product)
    /\ it.quantity > stock[it.product]

\* C26 as stated: an update of existing cart items fails with
\* InsufficientStock iff it grows one of them from prev to quantity > prev
\* with quantity - prev > product.stock; an update that only shrinks never
\* fails on stock.
C26_CartGrowthCheckedOnIncrement ==
    [][\A cid \in DOMAIN carts :
          \A D \in ListsOnRowsOf(carts[cid]) :
             CartUpdatedWith(cid, D)
             => (resp'.err = "InsufficientStock"
                   <=> \E i \in DOMAIN D : IncrementLacks(carts[cid], D[i]))]_vars

\* C26 as amended: an update of existing cart items fails with
\* InsufficientStock iff it grows one of them from prev to quantity > prev
\* with quantity > product.stock (the new quantity, not the increment, is
\* held against the stock); an update that only shrinks never fails on
\* stock.
C26_CartGrowthCheckedOnQuantity ==
    [][\A cid \in DOMAIN carts :
          \A D \in ListsOnRowsOf(carts[cid]) :
             CartUpdatedWith(cid, D)
             => (resp'.err = "InsufficientStock"
                   <=> \E i \in DOMAIN D : QuantityLacks(carts[cid], D[i]))]_vars

\* C26 witness: an update of a cart that holds one unit of P1 was refused
\* with InsufficientStock while P1 has one unit in stock (the growth to 2,
\* whose increment the stock covers).
C26_Witness ==
    /\ resp.op = "update_cart"
    /\ resp.err = "InsufficientStock"
    /\ carts[resp.id].items = <<Item("P1", 1)>>
    /\ stock["P1"] = 1
    /\ stock["P2"] = InitStock

\* C28: an order update that carries only an item list leaves the order's
\* status, payment_status and payment_id as they were, whatever the status
\* (Pending, Confirmed or Cancelled) and whether it is accepted or refused.
C28_ItemUpdateKeepsStatus ==
    [][\A a \in Staff, oid \in 1..MaxOrders, items \in ItemListsOn({"P1"}) :
          (/\ resp'.op = "update_order"
           /\ OrderFound(oid)
           /\ UpdateOrder(a, oid, ItemsPatch(items)))
          => /\ orders'[oid].status = orders[oid].status
             /\ orders'[oid].payment_status = orders[oid].payment_status
             /\ orders'[oid].payment_id = orders[oid].payment_id]_vars

\* C28 witness: an item-list update of a Cancelled order was accepted; the
\* order is still Cancelled, Payment Pending and holds its payment id.
C28_Witness ==
    /\ resp.op = "update_order"
    /\ resp.code = 200
    /\ orders[resp.id].status = "Cancelled"
    /\ orders[resp.id].payment_status = "Payment Pending"
    /\ orders[resp.id].payment_id \in PaymentIds
    /\ orders[resp.id].items # <<>>

-----------------------------------------------------------------------------
(* Properties of concurrent requests (SpecConc) *)

Stock0 == SeedOrder.stock
Orders0 == SeedOrder.orders

BothDone == \A w \in Workers : reqs[w] # Idle /\ reqs[w].phase = "done"

Succeeded(req) == req.err = "ok"

\* C2: two concurrent order creations for one product, each quantity within
\* the stock and their sum above it: exactly one succeeds, the other fails
\* with InsufficientStock, and the stock ends at the initial stock minus the
\* winner's quantity.
C2_OneReservationWins ==
    \A w1, w2 \in Workers, p \in Products, q1, q2 \in 1..MaxQty :
        (/\ w1 # w2
         /\ BothDone
         /\ reqs[w1].op = "create_order" /\ reqs[w1].items = <<Item(p, q1)>>
         /\ reqs[w2].op = "create_order" /\ reqs[w2].items = <<Item(p, q2)>>
         /\ q1 <= Stock0[p] /\ q2 <= Stock0[p] /\ q1 + q2 > Stock0[p])
        => \E w \in {w1, w2} : \E l \in {w1, w2} \ {w} :
              /\ Succeeded(reqs[w])
              /\ reqs[l].err = "InsufficientStock"
              /\ stock[p] = Stock0[p] - QtyOn(reqs[w].items, p)

\* C3: no lost update.  When two order reconciliations (creation or
\* item-list update) that touch one product both report success, the
\* product's stock has moved by the sum of their net deltas, that is by
\* minus the change of the quantity held by order line items.
C3_NoLostUpdate ==
    \A p \in Products :
        (/\ BothDone
         /\ \A w \in Workers : Succeeded(reqs[w]) /\ p \in ProductsOf(reqs[w].items))
        => stock[p] = Stock0[p] - (Held(orders, p) - Held(Orders0, p))

\* C27: starting a payment for an Unpaid order, the gateway creating it,
\* sets payment_status to Payment Pending and stores the gateway's payment
\* id, leaving status as it was; a payment-success callback whose execution
\* the gateway accepts sets payment_status to Paid and status to Confirmed;
\* neither changes a line item or any stock.
C27_PaymentSuccessTransitions ==
    [][/\ \A a \in Actors, oid \in 1..MaxOrders, gw \in CreateAnswers :
            (/\ OrderFound(oid)
             /\ MayPay(a, oid)
             /\ orders[oid].payment_status = "Unpaid"
             /\ gw.kind = "created"
             /\ CreatePayment(a, oid, gw))
            => /\ resp'.code = 200
               /\ orders'[oid].payment_status = "Payment Pending"
               /\ orders'[oid].payment_id = gw.payment_id
               /\ orders'[oid].status = orders[oid].status
               /\ orders'[oid].items = orders[oid].items
               /\ stock' = stock
       /\ \A oid \in 1..MaxOrders :
            (/\ OrderFound(oid)
             /\ PaymentSuccess(oid, TRUE))
            => /\ resp'.code = 200
               /\ orders'[oid].payment_status = "Paid"
               /\ orders'[oid].status = "Confirmed"
               /\ orders'[oid].items = orders[oid].items
               /\ stock' = stock]_vars

\* C27 witness: a payment-success callback was accepted for an order that
\* holds line items and the payment id its payment start stored; the order
\* is Paid and Confirmed.
C27_Witness ==
    /\ resp.op = "payment_success"
    /\ resp.code = 200
    /\ orders[resp.id].payment_status = "Paid"
    /\ orders[resp.id].status = "Confirmed"
    /\ orders[resp.id].payment_id \in PaymentIds
    /\ orders[resp.id].items # <<>>

\* C31: an order's payment_status becomes Paid only through a
\* payment-success callback on an order that is Payment Pending and whose
\* stored payment_id is the payment id the callback presents; a callback for
\* an Unpaid order, or presenting another payment id than the stored one,
\* leaves payment_status and status as they were.
C31_PaidOnlyThroughMatchingCallback ==
    [][/\ \A oid \in DOMAIN orders :
            (/\ orders[oid].payment_status # "Paid"
             /\ orders'[oid].payment_status = "Paid")
            => /\ resp'.op = "payment_success"
               /\ orders[oid].payment_status = "Payment Pending"
       /\ \A pid \in PaymentIds, oid \in 1..MaxOrders, gw \in BOOLEAN :
            (/\ OrderFound(oid)
             /\ \/ orders[oid].payment_status = "Unpaid"
                \/ orders[oid].payment_id # pid
             /\ PaymentSuccessCallback(pid, oid, gw))
            => /\ orders'[oid].payment_status = orders[oid].payment_status
               /\ orders'[oid].status = orders[oid].status]_vars

-----------------------------------------------------------------------------
(* Properties of access to carts and orders (SpecCart, SpecOrders) *)

\* The step is a request of actor a on cart cid: an update (with any list),
\* a delete or a checkout.
ActsOnCart(a, cid) ==
    \/ /\ resp'.op = "update_cart"
       /\ \E items \in ItemLists : UpdateCart(a, cid, items)
    \/ /\ resp'.op = "delete_cart"
       /\ DeleteCart(a, cid)
    \/ /\ resp'.op = "checkout"
       /\ Checkout(a, cid)

\* C21: an update, delete or checkout of an existing cart by a user who is
\* neither staff nor the cart's owner is answered 404 NotFound (not 403) and
\* leaves the carts with their items, the orders and every product's stock
\* as they were; the same request by the cart's owner is let through: it is
\* answered neither NotFound nor Forbidden, and the owner's delete removes
\* the cart.  (Each conjunct reads "a step that lacks the outcome is not
\* such a request".)
C21_NonOwnerGetsNotFound ==
    [][\A cid \in 1..MaxCarts :
          (/\ cid \in DOMAIN carts
           /\ carts[cid].exists
           /\ resp'.id = cid)
          => /\ \A a \in Customers \ {carts[cid].user} :
                   ~(/\ resp'.code = 404
                     /\ resp'.err = "NotFound"
                     /\ UNCHANGED <<stock, orders, carts>>)
                   => ~ActsOnCart(a, cid)
             /\ (\/ resp'.code \in {403, 404}
                 \/ resp'.err \in {"NotFound", "Forbidden"})
                   => ~ActsOnCart(carts[cid].user, cid)
             /\ ~(resp'.code = 204 /\ ~carts'[cid].exists)
                   => ~DeleteCart(carts[cid].user, cid)]_vars

\* C21 witness: a checkout was answered NotFound although the cart is there
\* and holds items (the checkout of a user who does not own it).
C21_Witness ==
    /\ resp.op = "checkout"
    /\ resp.code = 404
    /\ resp.id \in DOMAIN carts
    /\ carts[resp.id].exists
    /\ carts[resp.id].items # <<>>

\* What the database holds after the request req is served alone, from
\* validation to the last write, on the database db.
ServedAlone(req, db) ==
    IF req.op = "create_order"
    THEN LET r == OrderSerializer_create(db.stock, db.orders, req.actor,
                      Absent, req.items, to_internal_value(db.stock, req.items))
         IN  [stock |-> r.stock, orders |-> r.orders]
    ELSE LET r == OrderSerializer_update(db.stock, db.orders[req.oid],
                      ItemsPatch(req.items),
                      to_internal_value(db.stock, req.items))
         IN  [stock |-> r.stock,
              orders |-> [db.orders EXCEPT ![req.oid] = r.order]]

\* Stock and line items of a database.
StockAndLines(db) ==
    [stock |-> db.stock,
     lines |-> [o \in DOMAIN db.orders |-> db.orders[o].items]]

SeedRows == [stock |-> SeedEmptyOrder.stock, orders |-> SeedEmptyOrder.orders]

\* A request that has started can always take its next step, whatever the
\* other worker is doing (the rows read are all that WriteOrderItems asks
\* of the database).
NeverWaits ==
    \A w \in Workers :
        /\ (reqs[w] # Idle /\ reqs[w].phase = "validated")
              => ENABLED (SaveCreateOrder(w) \/ ReadOrderItems(w))
        /\ (reqs[w] # Idle /\ reqs[w].phase = "read")
              => reqs[w].rows \in {<<>>, orders[reqs[w].oid].items}

\* The two requests name no product in common (the order they may update
\* holds no item when they arrive).
TouchDisjoint(w1, w2) ==
    ProductsOf(reqs[w1].items) \cap ProductsOf(reqs[w2].items) = {}

\* C29: two concurrent order reconciliations (creations or item-list
\* updates) on disjoint sets of products never wait for each other, and when
\* both are done the stock of every product and the line items of every
\* order are those of serving the two requests one after the other, in one
\* order or the other.
C29_DisjointReconciliationsCommute ==
    /\ NeverWaits
    /\ \A w1, w2 \in Workers :
          (w1 # w2 /\ BothDone /\ TouchDisjoint(w1, w2))
          => StockAndLines([stock |-> stock, orders |-> orders])
                \in {StockAndLines(ServedAlone(reqs[w2],
                                       ServedAlone(reqs[w1], SeedRows))),
                     StockAndLines(ServedAlone(reqs[w1],
                                       ServedAlone(reqs[w2], SeedRows)))}

\* What does hold of C29: the same when the two requests are not both
\* updates of one order.
DisjointOnDifferentOrdersCommute ==
    /\ NeverWaits
    /\ \A w1, w2 \in Workers :
          (/\ w1 # w2 /\ BothDone /\ TouchDisjoint(w1, w2)
           /\ "create_order" \in {reqs[w1].op, reqs[w2].op})
          => StockAndLines([stock |-> stock, orders |-> orders])
                \in {StockAndLines(ServedAlone(reqs[w2],
                                       ServedAlone(reqs[w1], SeedRows))),
                     StockAndLines(ServedAlone(reqs[w1],
                                       ServedAlone(reqs[w2], SeedRows)))}

-----------------------------------------------------------------------------
(* Properties of concurrent payment requests (SpecPayConc) *)

\* C30: Paid is absorbing.  Once an order's payment_status is Paid it stays
\* Paid, whatever payment requests (start, success callback, cancel
\* callback) follow and however they interleave.  (It holds in SpecPay,
\* where every request is served to its end before the next one starts.)
C30_PaidIsAbsorbing ==
    [][\A oid \in DOMAIN orders :
          orders[oid].payment_status = "Paid"
          => orders'[oid].payment_status = "Paid"]_vars

\* C34: payment reference consistency.  In every reachable state, however
\* payment starts, success callbacks and cancel callbacks interleave, an
\* order whose payment_status is Unpaid has no payment_id (null) and an
\* order whose payment_status is Payment Pending has a payment_id.
C34_PaymentReferenceConsistent ==
    \A oid \in DOMAIN orders :
        /\ orders[oid].payment_status = "Unpaid"
              => orders[oid].payment_id = None
        /\ orders[oid].payment_status = "Payment Pending"
              => orders[oid].payment_id \in PaymentIds

\* C34 witness: a cancel callback that read the order Payment Pending was
\* served while another payment request was between its read and its write,
\* and the order is Unpaid without a payment_id.
C34_Witness ==
    \E w1, w2 \in Workers :
        /\ w1 # w2
        /\ reqs[w1] # Idle
        /\ reqs[w1].op = "payment_cancel"
        /\ reqs[w1].phase = "done"
        /\ reqs[w1].order.payment_status = "Payment Pending"
        /\ reqs[w2] # Idle
        /\ reqs[w2].phase = "loaded"
        /\ reqs[w2].order.payment_status = "Payment Pending"
        /\ orders[reqs[w1].oid].payment_status = "Unpaid"
        /\ orders[reqs[w1].oid].payment_id = None

-----------------------------------------------------------------------------
(* Properties of concurrent checkouts (SpecCheckout) *)

\* C32: a cart is converted into at most one order.  However two checkout
\* requests on the cart interleave, at most one order comes of it (the cart
\* is the only one there is, and orders come of checkouts only) and every
\* product's stock goes down by the cart's quantities at most once.
C32_CartConvertedOnce ==
    /\ Len(orders) <= 1
    /\ \A w \in Workers :
          (reqs[w] # Idle /\ reqs[w].code \in {0, 201})
          => \A p \in Products :
                stock[p] >= InitStock - QtyOn(reqs[w].cart.items, p)

\* What does hold of C32: the stock goes down by the cart's quantities at
\* most once (the second checkout writes the value the first one wrote).
StockTakenOnce ==
    \A w \in Workers :
        (reqs[w] # Idle /\ reqs[w].code \in {0, 201})
        => \A p \in Products :
              stock[p] >= InitStock - QtyOn(reqs[w].cart.items, p)

=============================================================================
